---- MODULE Spec2Model ----
(***************************************************************************)
(* A model of CellSelection.js (dmn-js-decision-table, cell-selection):    *)
(* the controller that keeps track of the selected cell of a decision      *)
(* table.  The controller state (lastSelection), the listeners it binds on *)
(* the container, its reactions to bus events and its API are translated   *)
(* from the source; the document, the event bus dispatch and the selection *)
(* service it talks to are modelled as far as the controller uses them.    *)
(* One action is one stimulus, processed to completion: bus dispatch and   *)
(* DOM focus events are synchronous, so a handler runs every handler it    *)
(* triggers before it returns.                                             *)
(***************************************************************************)
EXTENDS Integers, Sequences, FiniteSets, TLC

VARIABLES
  lastSelection,  \* the controller's lastSelection (line 37)
  bound,          \* per event kind: TRUE while its listener is on the container
  strictDom,      \* TRUE when removeEventListener rejects a non-object listener
  current,        \* the selection service's selected entity id, or Null
  activeElement,  \* the document's focused node, NoNode when none
  marks,          \* per element id: the most recent patch values emitted for it
  log,            \* the bus events fired while processing the last stimulus
  calls,          \* the selection service calls made by the controller in it
  requests,       \* the calls of realSelect made in it, in the order entered
  focusCalls,     \* the calls of focus() ensureFocus made in it
  destroyed,      \* TRUE once table.destroy has been fired
  op,             \* the last stimulus
  pre,            \* lastSelection / current / activeElement before it
  threw,          \* what the last stimulus threw: "none", "Error", "TypeError"
  returned,       \* the value the last API call returned
  overflow        \* TRUE when dispatch of the last stimulus hit MaxBusEvents

vars == <<lastSelection, bound, strictDom, current, activeElement, marks, log, calls,
          requests, focusCalls, destroyed, op, pre, threw, returned, overflow>>

\* ------------------------------------------------------------------------
\* JavaScript values

\* null (a missing attribute, closest() without a match, the initial
\* lastSelection).  Identifiers are strings; Null is no identifier.
Null == "<null>"

\* String(v) as used by string concatenation and template literals.
Str(v) == IF v = Null THEN "null" ELSE v

\* ToBoolean of an identifier: null and the empty string are falsy.
Truthy(v) == v # Null /\ v # ""

\* ------------------------------------------------------------------------
\* The document: the container tree and one element of another table after
\* it, nodes numbered in document order.
\* Attribute values that the code parses (data-coords) are sequences of
\* UTF-16 code units, as JavaScript strings are; <<>> is a missing (or empty)
\* attribute.

\* The code units of ":", "-", "+" and "0".
Colon == 58
Minus == 45
Plus == 43
Zero == 48

NoNode == 0

Chars01 == <<Zero, Colon, Zero + 1>>       \* "0:1"
Chars11 == <<Zero + 1, Colon, Zero + 1>>   \* "1:1"
Chars21 == <<Zero + 2, Colon, Zero + 1>>   \* "2:1"
Chars02 == <<Zero, Colon, Zero + 2>>       \* "0:2"
Chars12 == <<Zero + 1, Colon, Zero + 2>>   \* "1:2"

Node(parent, elementId, coords, noDeselect, contenteditable) ==
  [parent |-> parent, elementId |-> elementId, coords |-> coords,
   noDeselect |-> noDeselect, contenteditable |-> contenteditable]

Dom == <<
  Node(0, Null, <<>>,    FALSE, FALSE),   \*  1 the container
  Node(1, "a",  Chars01, FALSE, FALSE),   \*  2 cell a at 0:1
  Node(2, Null, <<>>,    FALSE, TRUE),    \*  3   its editable child
  Node(1, "b",  Chars11, FALSE, FALSE),   \*  4 cell b at 1:1
  Node(4, Null, <<>>,    FALSE, TRUE),    \*  5   its editable child
  Node(4, Null, <<>>,    TRUE,  FALSE),   \*  6   a no-deselect region in b
  Node(1, "c",  Chars21, FALSE, TRUE),    \*  7 cell c at 2:1, itself editable
  Node(1, "h",  <<>>,    FALSE, FALSE),   \*  8 element h without coordinates
  Node(1, Null, <<>>,    FALSE, FALSE),   \*  9 a node outside any element
  Node(1, Null, <<>>,    TRUE,  FALSE),   \* 10 a no-deselect region
  Node(1, "",   <<>>,    FALSE, FALSE),   \* 11 an element with an empty id
  Node(1, "d",  Chars02, FALSE, FALSE),   \* 12 cell d at 0:2, nothing editable
  Node(0, "x",  Chars12, FALSE, FALSE)    \* 13 outside the container: x at 1:2
>>

Nodes == 1..Len(Dom)

\* The container the controller is constructed with: the first node.
Container == 1

\* The identifiers of the elements in the document.
ElementIds == {Dom[n].elementId : n \in {k \in Nodes : Dom[k].elementId # Null}}

\* Entities the selection service can be asked to select from outside: the
\* ids of rendered elements (x is rendered outside the container) and one
\* id, "g", that no node carries.
EntityIds == (ElementIds \ {""}) \cup {"g"}

\* Every identifier a patch can be addressed to.
MarkIds == ElementIds \cup EntityIds \cup {Null}

\* el is root or a descendant of root.
RECURSIVE Within(_, _)
Within(el, root) ==
  IF el = NoNode THEN FALSE
  ELSE IF el = root THEN TRUE
  ELSE Within(Dom[el].parent, root)

\* min-dom query(selector, el): the first descendant of el, in document
\* order, that satisfies the selector; NoNode for null.  Without an el
\* (root = NoNode) the query runs on the whole document.
First(S) == IF S = {} THEN NoNode ELSE CHOOSE n \in S : \A k \in S : n <= k

Below(n, root) == root = NoNode \/ (n # root /\ Within(n, root))

QueryElementId(id, root) ==
  First({n \in Nodes : /\ Below(n, root)
                       /\ Dom[n].elementId # Null
                       /\ Dom[n].elementId = Str(id)})

QueryCoords(coordsAttr, root) ==
  First({n \in Nodes : /\ Below(n, root)
                       /\ Dom[n].coords # <<>>
                       /\ Dom[n].coords = coordsAttr})

QueryContentEditable(root) ==
  First({n \in Nodes : Below(n, root) /\ Dom[n].contenteditable})

\* min-dom closest(el, selector, true): el or its nearest ancestor matching.
RECURSIVE ClosestNoDeselect(_)
ClosestNoDeselect(el) ==
  IF el = NoNode THEN NoNode
  ELSE IF Dom[el].noDeselect THEN el
  ELSE ClosestNoDeselect(Dom[el].parent)

RECURSIVE ClosestElement(_)
ClosestElement(el) ==
  IF el = NoNode THEN NoNode
  ELSE IF Dom[el].elementId # Null THEN el
  ELSE ClosestElement(Dom[el].parent)

\* delegate.bind(container, ELEMENT_SELECTOR, ...): the listener is on the
\* container, so it sees the events of the container and its descendants;
\* the delegate target is the target or its nearest ancestor carrying an id,
\* a search that does not stop at the container.
DelegateTarget(target) ==
  IF Within(target, Container) THEN ClosestElement(target) ELSE NoNode

\* ------------------------------------------------------------------------
\* Coordinates: "row:col" strings, as sequences of code units

\* The code units of "0" to "9".
Digits == [i \in 1..10 |-> Zero + i - 1]

IsDigit(ch) == \E i \in 1..Len(Digits) : Digits[i] = ch

DigitVal(ch) == (CHOOSE i \in 1..Len(Digits) : Digits[i] = ch) - 1

\* The position of the first sep in s at or after i; Len(s) + 1 when none.
RECURSIVE IndexOf(_, _, _)
IndexOf(s, sep, i) ==
  IF i > Len(s) THEN Len(s) + 1
  ELSE IF s[i] = sep THEN i
  ELSE IndexOf(s, sep, i + 1)

\* String.prototype.split(sep) for a one-character separator.
RECURSIVE Split(_, _)
Split(s, sep) ==
  LET i == IndexOf(s, sep, 1)
  IN IF i > Len(s) THEN <<s>>
     ELSE <<SubSeq(s, 1, i - 1)>> \o Split(SubSeq(s, i + 1, Len(s)), sep)

\* A number: NaN, or an integer.
NaN == [nan |-> TRUE, val |-> 0]
Num(n) == [nan |-> FALSE, val |-> n]

\* The value of the longest prefix of digits of s from position i on.
RECURSIVE ParseDigits(_, _, _)
ParseDigits(s, i, acc) ==
  IF i > Len(s) \/ ~IsDigit(s[i]) THEN acc
  ELSE ParseDigits(s, i + 1, acc * 10 + DigitVal(s[i]))

\* The white space and line terminators parseInt skips (StrWhiteSpaceChar):
\* TAB, LF, VT, FF, CR, SP, NBSP, U+1680, U+2000 to U+200A, LS (U+2028),
\* PS (U+2029), U+202F, U+205F, U+3000 and ZWNBSP (U+FEFF).
WhiteSpace ==
  {9, 10, 11, 12, 13, 32, 160, 5760, 8232, 8233, 8239, 8287, 12288, 65279}
    \cup (8192..8202)

RECURSIVE SkipSpaces(_, _)
SkipSpaces(s, i) ==
  IF i <= Len(s) /\ s[i] \in WhiteSpace THEN SkipSpaces(s, i + 1) ELSE i

\* parseInt(s, 10): leading white space, an optional sign, then the longest
\* prefix of decimal digits; NaN when there is no digit.
ParseInt(s) ==
  LET i == SkipSpaces(s, 1)
      signed == i <= Len(s) /\ s[i] \in {Minus, Plus}
      j == IF signed THEN i + 1 ELSE i
      magnitude == ParseDigits(s, j, 0)
  IN IF j > Len(s) \/ ~IsDigit(s[j]) THEN NaN
     ELSE IF signed /\ s[i] = Minus THEN Num(0 - magnitude)
     ELSE Num(magnitude)

\* The decimal digits of a natural number.
RECURSIVE NatToChars(_)
NatToChars(n) ==
  IF n < 10 THEN <<Digits[n + 1]>>
  ELSE NatToChars(n \div 10) \o <<Digits[(n % 10) + 1]>>

\* String(number), as a template literal formats it.
NumToChars(x) ==
  IF x.nan THEN <<78, 97, 78>>   \* "NaN"
  ELSE IF x.val < 0 THEN <<Minus>> \o NatToChars(0 - x.val)
  ELSE NatToChars(x.val)

\* A destructured array element that is missing: undefined, told from
\* every string by a unit no string has.
Undefined == <<0 - 1>>

\* String(col) for the col of a coordinate pair; undefined gives "undefined".
ColToChars(col) ==
  IF col = Undefined THEN <<117, 110, 100, 101, 102, 105, 110, 101, 100>>
  ELSE col

\* getCoordinates(el): null (NoCoords) when the attribute is missing or
\* empty, else the first two parts of the attribute split at ":".
NoCoords == [none |-> TRUE]

getCoordinates(el) ==
  LET coordsAttr == Dom[el].coords
      parts == Split(coordsAttr, Colon)
  IN IF coordsAttr = <<>> THEN NoCoords
     ELSE [none |-> FALSE,
           row |-> parts[1],
           col |-> IF Len(parts) >= 2 THEN parts[2] ELSE Undefined]

getElementId(el) == Dom[el].elementId

\* getElementByCoords looking the row up in the first column, whatever col is.
getElementByCoordsFirstColumn(row, col, container) ==
  QueryCoords(NumToChars(row) \o <<Colon, Zero + 1>>, container)

\* getElementByCoords(coords, container), coords.row a number.
getElementByCoords(row, col, container) ==
  LET coordsAttr == NumToChars(row) \o <<Colon>> \o ColToChars(col)
  IN QueryCoords(coordsAttr, container)

\* getElement(id, container): called without a container (line 155), so the
\* query runs on the whole document, the container itself and the nodes
\* outside it included.
getElement(id) == QueryElementId(id, NoNode)

\* The row offsets of the two directions exchanged.
NextRowIndexSwapped(direction, rowIndex) ==
  IF rowIndex.nan THEN NaN
  ELSE IF direction = "above" THEN Num(rowIndex.val + 1)
  ELSE Num(rowIndex.val - 1)

\* direction === 'above' ? rowIndex - 1 : rowIndex + 1, NaN staying NaN.
NextRowIndex(direction, rowIndex) ==
  IF rowIndex.nan THEN NaN
  ELSE IF direction = "above" THEN Num(rowIndex.val - 1)
  ELSE Num(rowIndex.val + 1)

\* ------------------------------------------------------------------------
\* Patches and bus events

DeselectPatch == [selected |-> FALSE, focussed |-> FALSE]
SelectPatch == [selected |-> TRUE, focussed |-> TRUE]
UnfocusPatch == [focussed |-> FALSE]

\* patch.field is present and true.
Flag(patch, field) == field \in DOMAIN patch /\ patch[field]

\* The entity a selection.changed event carries: an object with an id, or null.
NoEntity == [isNull |-> TRUE]
Entity(id) == [isNull |-> FALSE, id |-> id]

\* The most bus events one stimulus may fire before dispatch is cut off.
MaxBusEvents == 24

\* ------------------------------------------------------------------------
\* The machine a stimulus runs on: the controller's lastSelection and
\* bindings, the selection service, the focused node, and what the stimulus
\* has fired and called so far.

Machine ==
  [lastSelection |-> lastSelection, bound |-> bound,
   strictDom |-> strictDom, current |-> current,
   activeElement |-> activeElement, log |-> <<>>, calls |-> <<>>,
   requests |-> <<>>, focusCalls |-> <<>>, threw |-> "none",
   overflow |-> FALSE]

RECURSIVE Fire(_, _, _)
RECURSIVE realSelect(_, _)

\* emit(elementId, newSelection): the per-element event, then the global one.
emit(m, elementId, newSelection) ==
  LET m1 == Fire(m, "selection." \o Str(elementId) \o ".changed", newSelection)
  IN Fire(m1, "cellSelection.changed",
          [elementId |-> elementId, selection |-> newSelection])

\* focus(event), bound to focusin on the elements of the container.
focus(m, delegateTarget) == realSelect(m, getElementId(delegateTarget))

\* unfocus withdrawing the selection along with the focus.
unfocusDeselects(m, delegateTarget) ==
  emit(m, getElementId(delegateTarget), DeselectPatch)

\* unfocus(event), bound to focusout on the elements of the container.
unfocus(m, delegateTarget) ==
  emit(m, getElementId(delegateTarget), UnfocusPatch)

\* node.focus(), or the user moving focus to node: nothing when the node has
\* the focus already; else focusout bubbles from the node that loses it and
\* focusin from the node that gets it, each to the handler delegated on the
\* container while it is bound.
DomFocus(m, node) ==
  IF m.activeElement = node THEN m
  ELSE
    LET old == m.activeElement
        m1 == [m EXCEPT !.activeElement = node]
        m2 == IF old # NoNode /\ m1.bound.focusout
                 /\ DelegateTarget(old) # NoNode
              THEN unfocus(m1, DelegateTarget(old))
              ELSE m1
    IN IF m2.bound.focusin /\ DelegateTarget(node) # NoNode
       THEN focus(m2, DelegateTarget(node))
       ELSE m2

\* The focused node loses the focus to nothing in the container.
DomBlur(m) ==
  LET old == m.activeElement
      m1 == [m EXCEPT !.activeElement = NoNode]
  IN IF old # NoNode /\ m1.bound.focusout /\ DelegateTarget(old) # NoNode
     THEN unfocus(m1, DelegateTarget(old))
     ELSE m1

\* A call of focusEl.focus() by ensureFocus(el), recorded with the number of
\* bus events fired before it.
Focused(m, el, focusEl) ==
  [m EXCEPT !.focusCalls = Append(@, [el |-> el, node |-> focusEl,
                                      at |-> Len(m.log)])]

\* ensureFocus(el): nothing when el is itself editable or has no editable
\* descendant, else focus the first editable descendant.
ensureFocus(m, el) ==
  IF Dom[el].contenteditable THEN m
  ELSE
    LET focusEl == QueryContentEditable(el)
    IN IF focusEl # NoNode
       THEN DomFocus(Focused(m, el, focusEl), focusEl)
       ELSE m

\* A cellSelection.changed listener that reacts to every patch.
onCellSelectionChangedAnyPatch(m, event) ==
  LET actualElement == QueryElementId(event.elementId, Container)
  IN IF actualElement # NoNode THEN ensureFocus(m, actualElement) ELSE m

\* eventBus.on('cellSelection.changed', ...)
onCellSelectionChanged(m, event) ==
  LET actualElement == QueryElementId(event.elementId, Container)
  IN IF Flag(event.selection, "selected") /\ actualElement # NoNode
     THEN ensureFocus(m, actualElement)
     ELSE m

\* A selection.changed listener that does not follow the service.
onSelectionChangedIgnored(m, event) == m

\* A selection.changed listener that deselects when the entity is null.
onSelectionChangedDeselects(m, event) ==
  IF ~event.selection.isNull
  THEN realSelect(m, event.selection.id)
  ELSE realSelect(m, Null)

\* eventBus.on('selection.changed', ...)
onSelectionChanged(m, event) ==
  IF ~event.selection.isNull
  THEN realSelect(m, event.selection.id)
  ELSE m

\* eventBus.on('table.destroy', ...).  event.unbind (line 110) removes the
\* click listener.  delegate.unbind takes (el, type, fn, capture) and is
\* called with (container, ELEMENT_SELECTOR, 'focusin', focus) (line 111): it
\* asks the container to remove the listener 'focusin' of the event type
\* '[data-element-id]', which removes nothing, and which a document that
\* checks the type of the listener rejects with a TypeError, ending the
\* handler before line 112.  Either way focus and unfocus stay bound.
onTableDestroy(m) ==
  LET m1 == [m EXCEPT !.bound.click = FALSE]
  IN IF m.strictDom THEN [m1 EXCEPT !.threw = "TypeError"] ELSE m1

\* eventBus.fire(name, payload): synchronous dispatch to the listeners the
\* controller registered.
Fire(m, name, payload) ==
  IF Len(m.log) >= MaxBusEvents THEN [m EXCEPT !.overflow = TRUE]
  ELSE
    LET m1 == [m EXCEPT !.log = Append(@, [name |-> name, payload |-> payload])]
    IN CASE name = "cellSelection.changed" -> onCellSelectionChanged(m1, payload)
         [] name = "selection.changed" -> onSelectionChanged(m1, payload)
         [] name = "table.destroy" -> onTableDestroy(m1)
         [] OTHER -> m1

\* The selection service: it holds one selected entity and announces a
\* change of it on the bus.
ServiceSelect(m, id) ==
  IF m.current = id THEN m
  ELSE Fire([m EXCEPT !.current = id], "selection.changed",
            [selection |-> Entity(id)])

ServiceDeselect(m) ==
  IF m.current = Null THEN m
  ELSE Fire([m EXCEPT !.current = Null], "selection.changed",
            [selection |-> NoEntity])

\* A call the controller makes to the selection service, recorded with the
\* number of bus events fired before it, lastSelection at that time and the
\* position in requests of the realSelect that makes it.
Called(m, fn, arg, request) ==
  [m EXCEPT !.calls = Append(@, [fn |-> fn, arg |-> arg, at |-> Len(m.log),
                                 lastSelection |-> m.lastSelection,
                                 request |-> request])]

\* A call of realSelect, recorded on entry with the number of bus events
\* fired before it and lastSelection at that time.
Entered(m, elementId) ==
  [m EXCEPT !.requests = Append(@, [elementId |-> elementId, at |-> Len(m.log),
                                    lastSelection |-> m.lastSelection])]

\* realSelect announcing the new selection before it withdraws the old one.
realSelectSelectFirst(m, elementId) ==
  LET m0 == Entered(m, elementId)
      m2 == [m0 EXCEPT !.lastSelection = elementId]
      m3 == IF Truthy(elementId) THEN emit(m2, elementId, SelectPatch) ELSE m2
      m1 == IF m0.lastSelection # elementId
            THEN emit(m3, m0.lastSelection, DeselectPatch)
            ELSE m3
  IN IF Truthy(elementId)
     THEN ServiceSelect(Called(m1, "select", elementId, Len(m0.requests)), elementId)
     ELSE ServiceDeselect(Called(m1, "deselect", Null, Len(m0.requests)))

\* realSelect that never withdraws the old selection.
realSelectNoDeselect(m, elementId) ==
  LET m0 == Entered(m, elementId)
      m2 == [m0 EXCEPT !.lastSelection = elementId]
      m3 == IF Truthy(elementId) THEN emit(m2, elementId, SelectPatch) ELSE m2
  IN IF Truthy(elementId)
     THEN ServiceSelect(Called(m3, "select", elementId, Len(m0.requests)), elementId)
     ELSE ServiceDeselect(Called(m3, "deselect", Null, Len(m0.requests)))

\* realSelect without the guard of its deselect-patch.
realSelectAlwaysDeselect(m, elementId) ==
  LET m0 == Entered(m, elementId)
      m1 == emit(m0, m0.lastSelection, DeselectPatch)
      m2 == [m1 EXCEPT !.lastSelection = elementId]
      m3 == IF Truthy(elementId) THEN emit(m2, elementId, SelectPatch) ELSE m2
  IN IF Truthy(elementId)
     THEN ServiceSelect(Called(m3, "select", elementId, Len(m0.requests)), elementId)
     ELSE ServiceDeselect(Called(m3, "deselect", Null, Len(m0.requests)))

\* realSelect calling the selection service before it emits the select-patch.
realSelectServiceFirst(m, elementId) ==
  LET m0 == Entered(m, elementId)
      m1 == IF m0.lastSelection # elementId
            THEN emit(m0, m0.lastSelection, DeselectPatch)
            ELSE m0
      m2 == [m1 EXCEPT !.lastSelection = elementId]
      m3 == IF Truthy(elementId)
            THEN ServiceSelect(Called(m2, "select", elementId,
                                      Len(m0.requests)), elementId)
            ELSE ServiceDeselect(Called(m2, "deselect", Null,
                                        Len(m0.requests)))
  IN IF Truthy(elementId) THEN emit(m3, elementId, SelectPatch) ELSE m3

\* realSelect that withdraws the old selection only when there is one.
realSelectDeselectsTruthy(m, elementId) ==
  LET m0 == Entered(m, elementId)
      m1 == IF Truthy(m0.lastSelection) /\ m0.lastSelection # elementId
            THEN emit(m0, m0.lastSelection, DeselectPatch)
            ELSE m0
      m2 == [m1 EXCEPT !.lastSelection = elementId]
      m3 == IF Truthy(elementId) THEN emit(m2, elementId, SelectPatch) ELSE m2
  IN IF Truthy(elementId)
     THEN ServiceSelect(Called(m3, "select", elementId, Len(m0.requests)),
                        elementId)
     ELSE ServiceDeselect(Called(m3, "deselect", Null, Len(m0.requests)))

\* realSelect clearing the selection service before it selects on it.
realSelectResetsService(m, elementId) ==
  LET m0 == Entered(m, elementId)
      m1 == IF m0.lastSelection # elementId
            THEN emit(m0, m0.lastSelection, DeselectPatch)
            ELSE m0
      m2 == [m1 EXCEPT !.lastSelection = elementId]
      m3 == IF Truthy(elementId) THEN emit(m2, elementId, SelectPatch) ELSE m2
      m4 == ServiceDeselect(m3)
  IN IF Truthy(elementId)
     THEN ServiceSelect(Called(m4, "select", elementId, Len(m0.requests)),
                        elementId)
     ELSE Called(m4, "deselect", Null, Len(m0.requests))

\* realSelect(elementId)
realSelect(m, elementId) ==
  LET m0 == Entered(m, elementId)
      m1 == IF m0.lastSelection # elementId
            THEN emit(m0, m0.lastSelection, DeselectPatch)
            ELSE m0
      m2 == [m1 EXCEPT !.lastSelection = elementId]
      m3 == IF Truthy(elementId) THEN emit(m2, elementId, SelectPatch) ELSE m2
  IN IF Truthy(elementId)
     THEN ServiceSelect(Called(m3, "select", elementId, Len(m0.requests)), elementId)
     ELSE ServiceDeselect(Called(m3, "deselect", Null, Len(m0.requests)))

\* click that ignores a target outside every element.
clickKeepsSelection(m, target) ==
  IF ClosestNoDeselect(target) # NoNode THEN m
  ELSE
    LET selectionTarget == ClosestElement(target)
    IN IF selectionTarget = NoNode THEN m
       ELSE realSelect(m, getElementId(selectionTarget))

\* click without its check for a no-deselect region.
clickAnywhere(m, target) ==
  LET selectionTarget == ClosestElement(target)
      elementId == IF selectionTarget # NoNode
                   THEN getElementId(selectionTarget)
                   ELSE Null
  IN realSelect(m, elementId)

\* click(event), bound to click on the container.  closest() without a match
\* leaves elementId null.
click(m, target) ==
  IF ClosestNoDeselect(target) # NoNode THEN m
  ELSE
    LET selectionTarget == ClosestElement(target)
        elementId == IF selectionTarget # NoNode
                     THEN getElementId(selectionTarget)
                     ELSE Null
    IN realSelect(m, elementId)

\* isCellSelected comparing lastSelection with null only.
isCellSelectedNonNull(m) == m.lastSelection # Null

\* this.isCellSelected()
isCellSelected(m) == Truthy(m.lastSelection)

\* selectCell without its check of the direction: anything but "above" moves
\* down.
selectCellNoDirectionCheck(m, direction) ==
  IF ~Truthy(m.lastSelection) THEN m
  ELSE
    LET selectionEl == getElement(m.lastSelection)
    IN IF selectionEl = NoNode THEN [m EXCEPT !.threw = "TypeError"]
       ELSE
         LET coords == getCoordinates(selectionEl)
         IN IF coords.none THEN m
            ELSE
              LET rowIndex == ParseInt(coords.row)
                  nextRowIndex == NextRowIndex(direction, rowIndex)
                  nextEl == getElementByCoords(nextRowIndex, coords.col, Container)
              IN IF nextEl = NoNode THEN m
                 ELSE
                   LET nextElId == getElementId(nextEl)
                   IN IF Truthy(nextElId) THEN realSelect(m, nextElId) ELSE m

\* selectCell without its early return when nothing is selected.
selectCellNoGuard(m, direction) ==
  IF direction # "above" /\ direction # "below"
  THEN [m EXCEPT !.threw = "Error"]
  ELSE
    LET selectionEl == getElement(m.lastSelection)
    IN IF selectionEl = NoNode THEN [m EXCEPT !.threw = "TypeError"]
       ELSE
         LET coords == getCoordinates(selectionEl)
         IN IF coords.none THEN m
            ELSE
              LET rowIndex == ParseInt(coords.row)
                  nextRowIndex == NextRowIndex(direction, rowIndex)
                  nextEl == getElementByCoords(nextRowIndex, coords.col, Container)
              IN IF nextEl = NoNode THEN m
                 ELSE
                   LET nextElId == getElementId(nextEl)
                   IN IF Truthy(nextElId) THEN realSelect(m, nextElId) ELSE m

\* this.selectCell(direction)
selectCell(m, direction) ==
  IF ~Truthy(m.lastSelection) THEN m
  ELSE IF direction # "above" /\ direction # "below"
  THEN [m EXCEPT !.threw = "Error"]
  ELSE
    LET selectionEl == getElement(m.lastSelection)
    IN IF selectionEl = NoNode THEN [m EXCEPT !.threw = "TypeError"]
       ELSE
         LET coords == getCoordinates(selectionEl)
         IN IF coords.none THEN m
            ELSE
              LET rowIndex == ParseInt(coords.row)
                  nextRowIndex == NextRowIndex(direction, rowIndex)
                  nextEl == getElementByCoords(nextRowIndex, coords.col, Container)
              IN IF nextEl = NoNode THEN m
                 ELSE
                   LET nextElId == getElementId(nextEl)
                   IN IF Truthy(nextElId) THEN realSelect(m, nextElId) ELSE m

\* ------------------------------------------------------------------------
\* The marks: what the patches emitted so far leave each element with

Unmarked == [selected |-> FALSE, focussed |-> FALSE]

\* The mark of an element after one more patch for it.
Patched(mark, patch) ==
  [selected |-> IF "selected" \in DOMAIN patch THEN patch.selected
                ELSE mark.selected,
   focussed |-> IF "focussed" \in DOMAIN patch THEN patch.focussed
                ELSE mark.focussed]

\* The marks after the patches of the first n events of a log.
RECURSIVE MarksAfter(_, _, _)
MarksAfter(mk, events, n) ==
  IF n = 0 THEN mk
  ELSE
    LET before == MarksAfter(mk, events, n - 1)
        e == events[n]
    IN IF e.name = "cellSelection.changed"
       THEN [before EXCEPT ![e.payload.elementId] =
                             Patched(@, e.payload.selection)]
       ELSE before

\* ------------------------------------------------------------------------
\* The state machine

Stimulus(kind, node, id, direction) ==
  [kind |-> kind, node |-> node, id |-> id, direction |-> direction]

Init ==
  /\ lastSelection = Null
  /\ bound = [click |-> TRUE, focusin |-> TRUE, focusout |-> TRUE]
  /\ strictDom \in BOOLEAN
  /\ current = Null
  /\ activeElement = NoNode
  /\ marks = [i \in MarkIds |-> Unmarked]
  /\ log = <<>>
  /\ calls = <<>>
  /\ requests = <<>>
  /\ focusCalls = <<>>
  /\ destroyed = FALSE
  /\ op = Stimulus("init", NoNode, Null, "")
  /\ pre = [lastSelection |-> Null, current |-> Null, activeElement |-> NoNode]
  /\ threw = "none"
  /\ returned = FALSE
  /\ overflow = FALSE

\* The state after a stimulus o that left the machine as m and returned ret.
Done(m, o, ret) ==
  /\ lastSelection' = m.lastSelection
  /\ bound' = m.bound
  /\ strictDom' = strictDom
  /\ current' = m.current
  /\ activeElement' = m.activeElement
  /\ marks' = MarksAfter(marks, m.log, Len(m.log))
  /\ log' = m.log
  /\ calls' = m.calls
  /\ requests' = m.requests
  /\ focusCalls' = m.focusCalls
  /\ destroyed' = (destroyed \/ o.kind = "table.destroy")
  /\ op' = o
  /\ pre' = [lastSelection |-> lastSelection, current |-> current,
             activeElement |-> activeElement]
  /\ threw' = m.threw
  /\ returned' = ret
  /\ overflow' = m.overflow

\* A click on a node of the container; the handler runs while it is bound.
Click(target) ==
  /\ Within(target, Container)
  /\ Done(IF bound.click THEN click(Machine, target) ELSE Machine,
          Stimulus("click", target, Null, ""), FALSE)

\* The user moves the focus to an editable node: focusout, then focusin.
FocusIn(node) ==
  /\ Dom[node].contenteditable
  /\ node # activeElement
  /\ Done(DomFocus(Machine, node), Stimulus("focusin", node, Null, ""), FALSE)

\* The focused node loses the focus: focusout.
FocusOut ==
  /\ activeElement # NoNode
  /\ Done(DomBlur(Machine), Stimulus("focusout", activeElement, Null, ""), FALSE)

\* Another component selects an entity on the selection service.
Select(id) ==
  /\ id # Null
  /\ Done(ServiceSelect(Machine, id), Stimulus("select", NoNode, id, ""), FALSE)

\* Another component clears the selection service.
Deselect ==
  /\ op' = Stimulus("deselect", NoNode, Null, "")
  /\ Done(ServiceDeselect(Machine), op', FALSE)

\* A call of the API's selectCell.
SelectCell(direction) ==
  /\ op' = Stimulus("selectCell", NoNode, Null, direction)
  /\ Done(selectCell(Machine, direction), op', FALSE)

\* A call of the API's isCellSelected.
IsCellSelected ==
  /\ op' = Stimulus("isCellSelected", NoNode, Null, "")
  /\ Done(Machine, op', isCellSelected(Machine))

\* The table is destroyed: table.destroy is fired on the bus.
TableDestroy ==
  /\ op' = Stimulus("table.destroy", NoNode, Null, "")
  /\ Done(Fire(Machine, "table.destroy", NoEntity), op', FALSE)

Directions == {"above", "below", "left"}

Next ==
  \/ \E target \in Nodes : Click(target)
  \/ \E node \in Nodes : FocusIn(node)
  \/ FocusOut
  \/ \E id \in EntityIds : Select(id)
  \/ Deselect
  \/ \E direction \in Directions : SelectCell(direction)
  \/ IsCellSelected
  \/ TableDestroy

Spec == Init /\ [][Next]_vars

\* ------------------------------------------------------------------------
\* Reading the log of a stimulus

\* Event e is the global announcement of patch for element id.
IsPatchFor(e, id, patch) ==
  /\ e.name = "cellSelection.changed"
  /\ e.payload.elementId = id
  /\ e.payload.selection = patch

\* The positions of the log at which patch is announced for element id.
PatchesFor(id, patch) == {i \in 1..Len(log) : IsPatchFor(log[i], id, patch)}

\* The positions of the log at which patch is announced for any element.
PatchesOf(patch) ==
  {i \in 1..Len(log) : /\ log[i].name = "cellSelection.changed"
                       /\ log[i].payload.selection = patch}

\* The stimulus left everything the controller owns or drives as it was.
NoEffect ==
  /\ lastSelection = pre.lastSelection
  /\ current = pre.current
  /\ activeElement = pre.activeElement
  /\ log = <<>>
  /\ calls = <<>>
  /\ requests = <<>>
  /\ focusCalls = <<>>

\* ------------------------------------------------------------------------
\* C1: when realSelect is entered for a non-empty identifier B while
\* lastSelection is a different non-empty identifier A, the deselect-patch
\* for A is fired after that entry and before the select-patch for B, and no
\* select-patch for B is fired between the entry and that deselect-patch.
C1_DeselectBeforeSelect ==
  \A k \in 1..Len(requests) :
    LET r == requests[k]
    IN (Truthy(r.lastSelection) /\ Truthy(r.elementId)
          /\ r.lastSelection # r.elementId)
       => \E i \in PatchesFor(r.lastSelection, DeselectPatch) :
            /\ i > r.at
            /\ \E j \in PatchesFor(r.elementId, SelectPatch) : j > i
            /\ \A j \in PatchesFor(r.elementId, SelectPatch) :
                 j > r.at => j > i

\* B was selected by a click while A was selected.
C1_Witness ==
  /\ op.kind = "click"
  /\ pre.lastSelection = "a"
  /\ lastSelection = "b"
  /\ PatchesFor("a", DeselectPatch) # {}
  /\ PatchesFor("b", SelectPatch) # {}

\* C2: at most one identifier is marked selected and at most one focussed by
\* the patches emitted so far, and an identifier marked selected is the
\* current lastSelection.
C2_AtMostOneSelected ==
  /\ Cardinality({i \in MarkIds : marks[i].selected}) <= 1
  /\ Cardinality({i \in MarkIds : marks[i].focussed}) <= 1
  /\ \A i \in MarkIds : marks[i].selected => i = lastSelection

\* b is marked selected after a was, and a is no longer.
C2_Witness ==
  /\ pre.lastSelection = "a"
  /\ marks["b"].selected
  /\ marks["b"].focussed
  /\ ~marks["a"].selected

\* C3 as stated: lastSelection is non-empty iff the selection service holds
\* an entity, and then both name the same identifier.
C3_Original ==
  /\ Truthy(lastSelection) <=> current # Null
  /\ current # Null => lastSelection = current

\* C3, amended: whenever the selection service holds an entity, lastSelection
\* names it; lastSelection may outlive the service's selection.
C3_ServiceSelectionIsLast ==
  current # Null => lastSelection = current

\* The service was made to select an entity from outside, and the
\* controller follows.
C3_Witness ==
  /\ op.kind = "select"
  /\ pre.lastSelection = "a"
  /\ current = "b"
  /\ lastSelection = "b"

\* The stimulus entered realSelect with the identifier that was already
\* lastSelection, a non-empty one.
SameAgain ==
  /\ requests # <<>>
  /\ Truthy(requests[1].elementId)
  /\ requests[1].lastSelection = requests[1].elementId

\* C4 as stated: a second realSelect with the same non-empty identifier
\* emits nothing.
C4_Original ==
  SameAgain =>
    /\ PatchesFor(requests[1].elementId, SelectPatch) = {}
    /\ PatchesFor(requests[1].elementId, DeselectPatch) = {}

\* C4, amended: a realSelect with the non-empty identifier that is already
\* lastSelection emits no deselect-patch of its own but does emit the
\* select-patch again: the first bus events after its entry are the
\* per-element event and the global event of the select-patch for it.
C4_NoDeselectButSelectAgain ==
  \A k \in 1..Len(requests) :
    LET r == requests[k]
    IN (Truthy(r.elementId) /\ r.lastSelection = r.elementId)
       => /\ Len(log) >= r.at + 2
          /\ log[r.at + 1] = [name |-> "selection." \o r.elementId \o ".changed",
                              payload |-> SelectPatch]
          /\ IsPatchFor(log[r.at + 2], r.elementId, SelectPatch)

\* a was clicked while it was selected.
C4_Witness ==
  /\ SameAgain
  /\ op.kind = "click"
  /\ pre.lastSelection = "a"
  /\ PatchesFor("a", SelectPatch) # {}

\* ------------------------------------------------------------------------
\* The grid of the document, read off the data-coords attributes

GridCols == {Zero + 1, Zero + 2}
GridRows == 0..(Len(Digits) - 1)

\* The nodes of the document at row r, column c; no node lies outside
\* GridRows.
CellAt(r, c) ==
  IF r \in GridRows
  THEN {n \in Nodes : Dom[n].coords = <<Digits[r + 1], Colon, c>>}
  ELSE {}

\* The nodes in the container at row r, column c.
InContainerAt(r, c) == {n \in CellAt(r, c) : Below(n, Container)}

Delta(direction) == IF direction = "above" THEN 0 - 1 ELSE 1

\* The last stimulus was selectCell with one of the two directions.
Moved == op.kind = "selectCell" /\ op.direction \in {"above", "below"}

\* The nodes that carried the selection before the last stimulus.
SelectedNodes == {n \in Nodes : Truthy(pre.lastSelection)
                                /\ Dom[n].elementId = pre.lastSelection}

\* C5 as stated: selectCell with any other direction throws in every state,
\* also when nothing is selected, and has no effect.
C5_Original ==
  (op.kind = "selectCell" /\ op.direction \notin {"above", "below"})
    => threw = "Error" /\ NoEffect

\* C5, amended: selectCell with a direction other than "above" and "below"
\* throws exactly when a cell is selected and returns silently when none is;
\* either way it has no effect.
C5_ThrowsWhenSelected ==
  (op.kind = "selectCell" /\ op.direction \notin {"above", "below"})
    => /\ Truthy(pre.lastSelection) => threw = "Error"
       /\ ~Truthy(pre.lastSelection) => threw = "none"
       /\ NoEffect

\* selectCell("left") threw while b was selected.
C5_Witness ==
  /\ op.kind = "selectCell"
  /\ op.direction = "left"
  /\ pre.lastSelection = "b"
  /\ threw = "Error"

\* C6 as stated: selectCell("above" / "below") never throws, and returns
\* with no effect when the selected identifier has no node, no coordinates
\* or no neighbour at the target coordinates.
C6_NeverThrows ==
  Moved =>
    /\ threw = "none"
    /\ (Truthy(pre.lastSelection)
          /\ \/ SelectedNodes = {}
             \/ \E n \in SelectedNodes : Dom[n].coords = <<>>
             \/ \E n \in SelectedNodes, r \in GridRows, c \in GridCols :
                  n \in CellAt(r, c) /\ InContainerAt(r + Delta(op.direction), c) = {})
       => NoEffect

\* C7: selectCell from a selected element at (r, c), with an element that
\* has a non-empty identifier at (r - 1, c) for above, (r + 1, c) for below,
\* makes that element lastSelection, deselect-patches the previous element,
\* select-patches the new one and calls select on the service with it; a
\* selectCell that changes lastSelection moves one row in the same column.
C7_MovesOneRow ==
  Moved =>
    /\ \A n \in SelectedNodes, r \in GridRows, c \in GridCols :
         (n \in CellAt(r, c)
            /\ \E nb \in InContainerAt(r + Delta(op.direction), c) :
                 Truthy(Dom[nb].elementId))
         => \E nb \in InContainerAt(r + Delta(op.direction), c) :
              /\ lastSelection = Dom[nb].elementId
              /\ PatchesFor(pre.lastSelection, DeselectPatch) # {}
              /\ PatchesFor(lastSelection, SelectPatch) # {}
              /\ \E k \in 1..Len(calls) :
                   calls[k].fn = "select" /\ calls[k].arg = lastSelection
    /\ lastSelection # pre.lastSelection
         => \E n \in SelectedNodes, r \in GridRows, c \in GridCols :
              /\ n \in CellAt(r, c)
              /\ \E nb \in InContainerAt(r + Delta(op.direction), c) :
                   lastSelection = Dom[nb].elementId

\* selectCell("above") moved the selection from b at 1:1 to a at 0:1.
C7_Witness ==
  /\ Moved
  /\ op.direction = "above"
  /\ pre.lastSelection = "b"
  /\ lastSelection = "a"
  /\ current = "a"

\* C8: selectCell from a selected element at (r, c) with no element at the
\* target coordinates has no effect: lastSelection is unchanged, no bus
\* event is fired, the selection service is not called.
C8_NoNeighbourNoEffect ==
  Moved =>
    \A n \in SelectedNodes, r \in GridRows, c \in GridCols :
      (n \in CellAt(r, c) /\ InContainerAt(r + Delta(op.direction), c) = {})
      => NoEffect /\ threw = "none"

\* selectCell("below") from d at 0:2, which has nothing below it.
C8_Witness ==
  /\ Moved
  /\ op.direction = "below"
  /\ pre.lastSelection = "d"
  /\ lastSelection = "d"
  /\ log = <<>>

\* C9: selectCell("above" / "below") with nothing selected (lastSelection
\* null or empty) has no effect and does not throw.
C9_NothingSelectedNoEffect ==
  (Moved /\ ~Truthy(pre.lastSelection))
    => NoEffect /\ threw = "none" /\ ~Truthy(lastSelection)

\* selectCell("above") was called with lastSelection null.
C9_Witness ==
  /\ Moved
  /\ op.direction = "above"
  /\ pre.lastSelection = Null
  /\ lastSelection = Null
  /\ log = <<>>

\* C10 as stated: isCellSelected() is false initially, true after a
\* selection of a non-empty identifier, false after a deselection, true iff
\* lastSelection is non-null, and has no effect.
C10_Original ==
  /\ op.kind = "init" => ~isCellSelected(Machine)
  /\ requests # <<>>
       => isCellSelected(Machine) = Truthy(requests[Len(requests)].elementId)
  /\ op.kind = "isCellSelected"
       => (returned <=> lastSelection # Null) /\ NoEffect

\* C10, amended: as stated, but isCellSelected() is true iff lastSelection
\* is neither null nor the empty string.
C10_TrueIffNonEmpty ==
  /\ op.kind = "init" => ~isCellSelected(Machine)
  /\ requests # <<>>
       => isCellSelected(Machine) = Truthy(requests[Len(requests)].elementId)
  /\ op.kind = "isCellSelected"
       => (returned <=> (lastSelection # Null /\ lastSelection # ""))
          /\ NoEffect

\* isCellSelected() returned false with the empty identifier selected.
C10_Witness ==
  /\ op.kind = "isCellSelected"
  /\ lastSelection = ""
  /\ ~returned

\* ------------------------------------------------------------------------
\* C11 as stated: once table.destroy has fired, every click, focusin and
\* focusout fires no bus event, leaves lastSelection as it was and makes no
\* call to the selection service.
C11_NothingAfterDestroy ==
  (destroyed /\ op.kind \in {"click", "focusin", "focusout"})
    => /\ log = <<>>
       /\ calls = <<>>
       /\ requests = <<>>
       /\ focusCalls = <<>>
       /\ lastSelection = pre.lastSelection
       /\ current = pre.current

\* The target of the last click lies in no no-deselect region and in no
\* element.
ClickedOutside ==
  /\ op.kind = "click"
  /\ bound.click
  /\ ClosestNoDeselect(op.node) = NoNode
  /\ ClosestElement(op.node) = NoNode

\* C12: a click (while the click listener is bound) on a target outside every
\* no-deselect region and every element deselects: lastSelection becomes
\* null, a selected element gets the deselect-patch, no select-patch is
\* emitted, and the one call to the selection service is deselect().
C12_ClickOutsideDeselects ==
  ClickedOutside =>
    /\ lastSelection = Null
    /\ Truthy(pre.lastSelection)
         => PatchesFor(pre.lastSelection, DeselectPatch) # {}
    /\ PatchesOf(SelectPatch) = {}
    /\ Len(calls) = 1
    /\ calls[1].fn = "deselect"
    /\ current = Null

\* The node outside every element was clicked while a was selected.
C12_Witness ==
  /\ ClickedOutside
  /\ op.node = 9
  /\ pre.lastSelection = "a"
  /\ pre.current = "a"
  /\ lastSelection = Null

\* C13: a click on a target in (or being) a no-deselect region has no
\* effect, also when the target lies in an element.
C13_NoDeselectIgnored ==
  (op.kind = "click" /\ ClosestNoDeselect(op.node) # NoNode) => NoEffect

\* The no-deselect region inside cell b was clicked while a was selected.
C13_Witness ==
  /\ op.kind = "click"
  /\ bound.click
  /\ op.node = 6
  /\ ClosestElement(op.node) = 4
  /\ pre.lastSelection = "a"
  /\ lastSelection = "a"

\* The last stimulus was a focusout delivered to unfocus for an element.
Unfocused ==
  /\ op.kind = "focusout"
  /\ DelegateTarget(op.node) # NoNode

\* C14: a focusout on an element X of the container fires
\* selection.X.changed and cellSelection.changed with {focussed: false} and
\* nothing else; lastSelection and isCellSelected() keep their values and
\* the selection service is not called.
C14_FocusoutOnlyUnfocusses ==
  Unfocused =>
    LET X == Dom[DelegateTarget(op.node)].elementId
    IN /\ log = << [name |-> "selection." \o Str(X) \o ".changed",
                    payload |-> UnfocusPatch],
                   [name |-> "cellSelection.changed",
                    payload |-> [elementId |-> X, selection |-> UnfocusPatch]] >>
       /\ lastSelection = pre.lastSelection
       /\ isCellSelected(Machine)
            = isCellSelected([lastSelection |-> pre.lastSelection])
       /\ current = pre.current
       /\ calls = <<>>
       /\ requests = <<>>
       /\ marks[X].selected = (pre.lastSelection = X)

\* The editable child of the selected cell a lost the focus.
C14_Witness ==
  /\ Unfocused
  /\ op.node = 3
  /\ pre.lastSelection = "a"
  /\ lastSelection = "a"
  /\ marks["a"].selected
  /\ ~marks["a"].focussed

\* ------------------------------------------------------------------------
\* C15: a selection.changed event with an entity makes the controller select
\* the entity's identifier: realSelect is entered with it right after the
\* event, lastSelection becomes it, a differing previous selection gets the
\* deselect-patch and the entity the select-patch.  A selection.changed
\* event with a null entity does nothing: no realSelect, no patch, no call
\* to the selection service, lastSelection unchanged.
C15_FollowsSelectionChanged ==
  /\ \A i \in 1..Len(log) :
       log[i].name = "selection.changed"
       => IF log[i].payload.selection.isNull
          THEN \A k \in 1..Len(requests) : requests[k].at # i
          ELSE \E k \in 1..Len(requests) :
                 /\ requests[k].at = i
                 /\ requests[k].elementId = log[i].payload.selection.id
  /\ (op.kind = "select" /\ pre.current # op.id)
       => /\ log[1] = [name |-> "selection.changed",
                       payload |-> [selection |-> Entity(op.id)]]
          /\ lastSelection = op.id
          /\ PatchesFor(op.id, SelectPatch) # {}
          /\ pre.lastSelection # op.id
               => PatchesFor(pre.lastSelection, DeselectPatch) # {}
          /\ pre.lastSelection = op.id => PatchesOf(DeselectPatch) = {}
  /\ (op.kind = "deselect" /\ pre.current # Null)
       => /\ log = << [name |-> "selection.changed",
                       payload |-> [selection |-> NoEntity]] >>
          /\ lastSelection = pre.lastSelection
          /\ calls = <<>>
          /\ requests = <<>>
          /\ focusCalls = <<>>

\* The selection service was cleared from outside while b was selected: the
\* event with the null entity was fired and the controller kept b.
C15_Witness ==
  /\ op.kind = "deselect"
  /\ pre.current = "b"
  /\ Len(log) = 1
  /\ log[1].payload.selection.isNull
  /\ lastSelection = "b"

\* The name of the per-element event for an identifier.
PerElementEvent(id) == "selection." \o Str(id) \o ".changed"

\* Event e is a per-element event.
IsPerElement(e) ==
  e.name \notin {"cellSelection.changed", "selection.changed", "table.destroy"}

\* The positions in calls of the call made by the k-th realSelect.
CallsOf(k) == {c \in 1..Len(calls) : calls[c].request = k}

\* C16: every patch is fired as selection.<elementId>.changed immediately
\* followed by cellSelection.changed {elementId, selection: patch}; every
\* realSelect makes exactly one call to the selection service, select(id)
\* for a non-empty identifier and deselect() otherwise, after its own
\* patches have been fired and with lastSelection already its identifier.
C16_EventPairsAndOneCall ==
  /\ \A i \in 1..Len(log) :
       /\ log[i].name = "cellSelection.changed"
            => /\ i > 1
               /\ log[i - 1] = [name |-> PerElementEvent(log[i].payload.elementId),
                                payload |-> log[i].payload.selection]
       /\ IsPerElement(log[i])
            => /\ i < Len(log)
               /\ log[i + 1].name = "cellSelection.changed"
               /\ log[i + 1].payload.selection = log[i].payload
               /\ log[i].name = PerElementEvent(log[i + 1].payload.elementId)
  /\ Len(calls) = Len(requests)
  /\ \A k \in 1..Len(requests) :
       /\ Cardinality(CallsOf(k)) = 1
       /\ \A c \in CallsOf(k) :
            LET r == requests[k]
            IN /\ IF Truthy(r.elementId)
                  THEN calls[c].fn = "select" /\ calls[c].arg = r.elementId
                  ELSE calls[c].fn = "deselect"
               /\ calls[c].lastSelection = r.elementId
               /\ r.lastSelection # r.elementId
                    => /\ r.at + 2 <= calls[c].at
                       /\ IsPatchFor(log[r.at + 2], r.lastSelection,
                                     DeselectPatch)
               /\ Truthy(r.elementId)
                    => \E j \in (r.at + 1)..calls[c].at :
                         IsPatchFor(log[j], r.elementId, SelectPatch)

\* A click on cell b while a was selected: three realSelect calls (the
\* click, the focusin, the selection.changed), each with its one select(b).
C16_Witness ==
  /\ op.kind = "click"
  /\ pre.lastSelection = "a"
  /\ Len(requests) = 3
  /\ Len(calls) = 3
  /\ \A c \in 1..Len(calls) : calls[c].fn = "select" /\ calls[c].arg = "b"

\* ------------------------------------------------------------------------
\* The k-th realSelect starts by firing the deselect-patch for the value
\* lastSelection had on its entry.
StartsWithDeselect(k) ==
  LET r == requests[k]
  IN /\ Len(log) >= r.at + 2
     /\ log[r.at + 1] = [name |-> "selection." \o Str(r.lastSelection)
                                    \o ".changed",
                         payload |-> DeselectPatch]
     /\ IsPatchFor(log[r.at + 2], r.lastSelection, DeselectPatch)

\* The patches fired after the entry of the k-th realSelect.
PatchesSince(k) ==
  {i \in 1..Len(log) : /\ i > requests[k].at
                       /\ log[i].name = "cellSelection.changed"}

\* realSelect starts with a deselect-patch for the old lastSelection exactly
\* when the new identifier differs from it, and the first selection of a
\* non-empty identifier deselects null before it selects.
DeselectIffDiffers ==
  \A k \in 1..Len(requests) :
    LET r == requests[k]
    IN /\ StartsWithDeselect(k) <=> r.lastSelection # r.elementId
       /\ (r.lastSelection = Null /\ Truthy(r.elementId))
            => /\ log[r.at + 1].name = "selection.null.changed"
               /\ IsPatchFor(log[r.at + 4], r.elementId, SelectPatch)

\* C17 as stated: ... and realSelect with an empty identifier while nothing
\* is selected (each of them null or the empty string) emits no patch.
C17_Original ==
  /\ DeselectIffDiffers
  /\ \A k \in 1..Len(requests) :
       (~Truthy(requests[k].lastSelection) /\ ~Truthy(requests[k].elementId))
       => PatchesSince(k) = {}

\* C17, amended: ... and realSelect with an empty identifier while nothing
\* is selected emits no patch when the identifier is identical to
\* lastSelection (null with null, "" with ""); when the two differ (null and
\* ""), it emits the deselect-patch for the old value and nothing else.
C17_DeselectIffDiffers ==
  /\ DeselectIffDiffers
  /\ \A k \in 1..Len(requests) :
       LET r == requests[k]
       IN (~Truthy(r.lastSelection) /\ ~Truthy(r.elementId))
          => PatchesSince(k) = IF r.lastSelection = r.elementId
                               THEN {}
                               ELSE {r.at + 2}

\* The first selection: a was clicked in the initial state, and null got
\* the deselect-patch before a got the select-patch.
C17_Witness ==
  /\ requests # <<>>
  /\ requests[1].lastSelection = Null
  /\ requests[1].elementId = "a"
  /\ log[1].name = "selection.null.changed"
  /\ IsPatchFor(log[2], Null, DeselectPatch)
  /\ IsPatchFor(log[4], "a", SelectPatch)

\* ------------------------------------------------------------------------
\* The nodes ensureFocus moves the focus to for element el: its first
\* editable descendant, unless el is editable itself.
FocusTargets(el) ==
  IF Dom[el].contenteditable THEN {}
  ELSE {n \in Nodes :
          /\ n # el /\ Within(n, el) /\ Dom[n].contenteditable
          /\ \A k \in Nodes :
               (k # el /\ Within(k, el) /\ Dom[k].contenteditable) => n <= k}

\* C18: every focus() the controller calls follows at once a
\* cellSelection.changed event whose patch has selected: true, for an
\* element present in the container that is not itself editable, and goes
\* to an editable descendant of it; such an event for an element with an
\* editable descendant is followed by the call; deselect-patches, unfocus
\* patches and patches for elements that are editable themselves or have no
\* editable descendant are followed by none; and the focus moves in no other
\* way while a stimulus other than the user's focus change is processed.
C18_FocusOnlyOnSelect ==
  /\ \A f \in 1..Len(focusCalls) :
       LET c == focusCalls[f]
       IN /\ c.at >= 1
          /\ log[c.at].name = "cellSelection.changed"
          /\ Flag(log[c.at].payload.selection, "selected")
          /\ c.el # NoNode
          /\ c.el = QueryElementId(log[c.at].payload.elementId, Container)
          /\ c.node \in FocusTargets(c.el)
  /\ \A i \in 1..Len(log) :
       log[i].name = "cellSelection.changed"
       => LET here == {f \in 1..Len(focusCalls) : focusCalls[f].at = i}
              el == QueryElementId(log[i].payload.elementId, Container)
          IN IF /\ log[i].payload.selection = SelectPatch
                /\ el # NoNode
                /\ FocusTargets(el) # {}
             THEN Cardinality(here) = 1
             ELSE here = {}
  /\ op.kind \notin {"focusin", "focusout"}
       => \/ activeElement = pre.activeElement
          \/ /\ focusCalls # <<>>
             /\ activeElement = focusCalls[Len(focusCalls)].node
  /\ op.kind = "focusin" => activeElement = op.node

\* A click on cell b moved the focus from the editable child of a to the
\* editable child of b.
C18_Witness ==
  /\ op.kind = "click"
  /\ op.node = 4
  /\ pre.activeElement = 3
  /\ activeElement = 5
  /\ focusCalls # <<>>
  /\ focusCalls[1].el = 4
  /\ focusCalls[1].node = 5

\* C19: every stimulus is processed to quiescence within the limit on bus
\* events (at most 11 are fired), and the re-entrant calls of realSelect it
\* causes are for the identifier being selected, find lastSelection equal to
\* it, emit no deselect-patch for it and leave lastSelection equal to it.
C19_Quiescent ==
  /\ ~overflow
  /\ Len(log) <= 11
  /\ requests # <<>>
       => LET X == requests[1].elementId
          IN /\ lastSelection = X
             /\ \A k \in 2..Len(requests) :
                  /\ requests[k].elementId = X
                  /\ requests[k].lastSelection = X
             /\ Truthy(X) => PatchesFor(X, DeselectPatch) = {}

\* The whole chain ran: a click on b while a was selected and focused moved
\* the focus (focusout, focusin), the focusin and the selection.changed of
\* the service re-entered realSelect, and the processing came to rest.
C19_Witness ==
  /\ op.kind = "click"
  /\ pre.lastSelection = "a"
  /\ pre.activeElement = 3
  /\ activeElement = 5
  /\ Len(requests) = 3
  /\ Len(log) = 11
  /\ lastSelection = "b"
  /\ current = "b"
  /\ ~overflow

====
